---- MODULE Spec2Model ----
(***************************************************************************)
(* The state-change journal of modules/statedb (journal.go): the journal   *)
(* (entries + dirties), the thirteen journalEntry variants with their      *)
(* revert/dirtied methods, and the StateDB mutators that append them.      *)
(*                                                                         *)
(* journal.revert is a loop; it is modelled one iteration per step         *)
(* (RevertStep) so that the intermediate states of a revert are states of  *)
(* the model.  The StateDB is single-threaded: while a revert is running   *)
(* (pc = "revert") no other operation is enabled.                          *)
(***************************************************************************)
EXTENDS Integers, Sequences, FiniteSets, TLC

(* ------------------------------ bounds --------------------------------- *)
\* Number of mutator calls (journal.dirty included) in one run.
MaxOps == 3
\* Longest journal the mutators may build.
MaxJournal == 4
\* Number of revisions Snapshot may mint.
MaxRevisions == 2
\* Number of reverts to a revision that is no longer valid.
MaxMisuse == 1
\* Number of SuggestTipCap calls, all callers together.
MaxCalls == 3
\* Number of new-head notifications the event feed publishes.
MaxEvents == 3

\* Number of SuggestTipCap calls in the behaviours checked for termination.
MaxFairCalls == 2

(* ------------------------------ data ----------------------------------- *)
Addr == {"a1", "a2"}
\* Addresses the persistence layer holds an account for.
Stored == {"a1"}
\* Addresses with no account yet: their first write creates the object.
Fresh == Addr \ Stored
\* The balance persistence holds for a stored account.
StoredBalance == {7}
\* What the mutators are called with.
Balances == {3}
Nonces == {4}
Codes == {"c1"}
Keys == {"k1"}
Words == {9}
Gas == {1}
TxHashes == {"h1", "h2"}
LogData == {"l1"}
Preimages == {"p1"}
Slots == {"s1"}

\* A map with no keys (Go: make(map[K]V)).
EmptyMap == [x \in {} |-> 0]

\* delete(m, k) on a Go map.
MapDelete(m, k) == [x \in DOMAIN m \ {k} |-> m[x]]

\* m[k] = v on a Go map.
MapPut(m, k, v) == [x \in DOMAIN m \cup {k} |-> IF x = k THEN v ELSE m[x]]

\* crypto.Keccak256 of the code, as the stateObject keeps it in CodeHash.
CodeHash(code) == IF code = "" THEN "emptyCodeHash" ELSE "hashOf_" \o code

\* newObject: a fresh account, zero balance/nonce, no code, no cached storage.
newObject(addr) ==
    [address |-> addr, balance |-> 0, nonce |-> 0, code |-> "",
     codeHash |-> CodeHash(""), storage |-> EmptyMap, suicided |-> FALSE]

\* The object as allocated: ptr is its identity, the *stateObject every holder
\* of the object shares (the live map and an object-reset record alike).
allocated(object, ptr) ==
    [address |-> object.address, balance |-> object.balance,
     nonce |-> object.nonce, code |-> object.code, codeHash |-> object.codeHash,
     storage |-> object.storage, suicided |-> object.suicided, ptr |-> ptr]

(* ------------------------- journal entries ----------------------------- *)
createObjectChange(account) == [kind |-> "createObjectChange", account |-> account]
resetObjectChange(prev, prevdestruct) ==
    [kind |-> "resetObjectChange", prev |-> prev, prevdestruct |-> prevdestruct]
suicideChange(account, prev, prevbalance) ==
    [kind |-> "suicideChange", account |-> account, prev |-> prev,
     prevbalance |-> prevbalance]
balanceChange(account, prev) ==
    [kind |-> "balanceChange", account |-> account, prev |-> prev]
nonceChange(account, prev) ==
    [kind |-> "nonceChange", account |-> account, prev |-> prev]
storageChange(account, key, prevalue) ==
    [kind |-> "storageChange", account |-> account, key |-> key,
     prevalue |-> prevalue]
codeChange(account, prevcode, prevhash) ==
    [kind |-> "codeChange", account |-> account, prevcode |-> prevcode,
     prevhash |-> prevhash]
refundChange(prev) == [kind |-> "refundChange", prev |-> prev]
addLogChange(txhash) == [kind |-> "addLogChange", txhash |-> txhash]
addPreimageChange(hash) == [kind |-> "addPreimageChange", hash |-> hash]
touchChange(account) == [kind |-> "touchChange", account |-> account]
accessListAddAccountChange(address) ==
    [kind |-> "accessListAddAccountChange", address |-> address]
accessListAddSlotChange(address, slot) ==
    [kind |-> "accessListAddSlotChange", address |-> address, slot |-> slot]

\* The zero value of a journalEntry slot in a freshly grown backing array.
nilEntry == [kind |-> "nil"]

\* The nil *types.Address.
nilAddr == "nil"

(* --------------------------- StateDB helpers --------------------------- *)
\* s.getStateObject(addr) != nil
hasStateObject(s, addr) == addr \in DOMAIN s.stateObjects

\* s.setStateObject(object)
setStateObject(s, object) ==
    [s EXCEPT !.stateObjects = MapPut(s.stateObjects, object.address, object)]

\* stateObject.setBalance / setNonce / setCode / setState on the live object.
setBalance(s, addr, amount) ==
    [s EXCEPT !.stateObjects[addr].balance = amount]
setNonce(s, addr, nonce) ==
    [s EXCEPT !.stateObjects[addr].nonce = nonce]
setCode(s, addr, codeHash, code) ==
    [s EXCEPT !.stateObjects[addr].code = code,
              !.stateObjects[addr].codeHash = codeHash]
setState(s, addr, key, value) ==
    [s EXCEPT !.stateObjects[addr].storage =
                  MapPut(s.stateObjects[addr].storage, key, value)]

\* types.BytesToHash on the 32 bytes of a code hash.
BytesToHash(b) == b

\* accessList.DeleteAddress / DeleteSlot
DeleteAddress(al, address) == [al EXCEPT !.addresses = al.addresses \ {address}]
DeleteSlot(al, address, slot) == [al EXCEPT !.slots = al.slots \ {<<address, slot>>}]

(* ----------------- journalEntry.revert, per variant -------------------- *)
\* createObjectChange.revert that drops every dirty marker with the object.
createObjectChange_revert_clearsMarkers(s, ch) ==
    [s EXCEPT !.stateObjects = MapDelete(s.stateObjects, ch.account),
              !.stateObjectsDirty = {}]

createObjectChange_revert(s, ch) ==
    [s EXCEPT !.stateObjects = MapDelete(s.stateObjects, ch.account),
              !.stateObjectsDirty = s.stateObjectsDirty \ {ch.account}]

\* resetObjectChange.revert that drops the object, as createObjectChange does.
resetObjectChange_revert_asCreate(s, ch) ==
    [s EXCEPT !.stateObjects = MapDelete(s.stateObjects, ch.prev.address),
              !.stateObjectsDirty = s.stateObjectsDirty \ {ch.prev.address}]

\* resetObjectChange.revert that writes the old balance into the live object.
resetObjectChange_revert_balanceOnly(s, ch) ==
    setBalance(s, ch.prev.address, ch.prev.balance)

resetObjectChange_revert(s, ch) == setStateObject(s, ch.prev)

\* suicideChange.revert that clears the flag whatever it was before.
suicideChange_revert_clearsFlag(s, ch) ==
    IF hasStateObject(s, ch.account)
    THEN setBalance([s EXCEPT !.stateObjects[ch.account].suicided = FALSE],
                    ch.account, ch.prevbalance)
    ELSE s

\* suicideChange.revert that restores the flag and forgets the balance.
suicideChange_revert_flagOnly(s, ch) ==
    IF hasStateObject(s, ch.account)
    THEN [s EXCEPT !.stateObjects[ch.account].suicided = ch.prev]
    ELSE s

suicideChange_revert(s, ch) ==
    IF hasStateObject(s, ch.account)
    THEN setBalance([s EXCEPT !.stateObjects[ch.account].suicided = ch.prev],
                    ch.account, ch.prevbalance)
    ELSE s

touchChange_revert(s, ch) == s

balanceChange_revert(s, ch) == setBalance(s, ch.account, ch.prev)

nonceChange_revert(s, ch) == setNonce(s, ch.account, ch.prev)

codeChange_revert(s, ch) ==
    setCode(s, ch.account, BytesToHash(ch.prevhash), ch.prevcode)

storageChange_revert(s, ch) == setState(s, ch.account, ch.key, ch.prevalue)

refundChange_revert(s, ch) == [s EXCEPT !.refund = ch.prev]

\* addLogChange.revert without the len(logs) == 1 case.
addLogChange_revert_keepsEmpty(s, ch) ==
    LET logs == s.logs[ch.txhash] IN
    [s EXCEPT !.logs = MapPut(s.logs, ch.txhash, SubSeq(logs, 1, Len(logs) - 1)),
              !.logSize = s.logSize - 1]

addLogChange_revert(s, ch) ==
    LET logs == s.logs[ch.txhash] IN
    [s EXCEPT !.logs = IF Len(logs) = 1
                       THEN MapDelete(s.logs, ch.txhash)
                       ELSE MapPut(s.logs, ch.txhash, SubSeq(logs, 1, Len(logs) - 1)),
              !.logSize = s.logSize - 1]

addPreimageChange_revert(s, ch) ==
    [s EXCEPT !.preimages = MapDelete(s.preimages, ch.hash)]

accessListAddAccountChange_revert(s, ch) ==
    [s EXCEPT !.accessList = DeleteAddress(s.accessList, ch.address)]

\* accessListAddSlotChange.revert that deletes the address, not the slot.
accessListAddSlotChange_revert_deletesAddress(s, ch) ==
    [s EXCEPT !.accessList = DeleteAddress(s.accessList, ch.address)]

accessListAddSlotChange_revert(s, ch) ==
    [s EXCEPT !.accessList = DeleteSlot(s.accessList, ch.address, ch.slot)]

\* Kinds whose revert dereferences s.getStateObject(account) without a nil check.
DerefKinds == {"balanceChange", "nonceChange", "codeChange", "storageChange"}

\* entry.revert(statedb) panics: a nil interface, a nil *stateObject, or
\* logs[:len(logs)-1] on an empty (absent) per-hash list.
revertPanics(s, ch) ==
    \/ ch.kind = "nil"
    \/ ch.kind \in DerefKinds /\ ~hasStateObject(s, ch.account)
    \/ ch.kind = "addLogChange" /\ ch.txhash \notin DOMAIN s.logs

\* entry.revert(statedb): dynamic dispatch on the entry's type.
entryRevert(s, ch) ==
    CASE ch.kind = "createObjectChange" -> createObjectChange_revert(s, ch)
      [] ch.kind = "resetObjectChange" -> resetObjectChange_revert(s, ch)
      [] ch.kind = "suicideChange" -> suicideChange_revert(s, ch)
      [] ch.kind = "touchChange" -> touchChange_revert(s, ch)
      [] ch.kind = "balanceChange" -> balanceChange_revert(s, ch)
      [] ch.kind = "nonceChange" -> nonceChange_revert(s, ch)
      [] ch.kind = "codeChange" -> codeChange_revert(s, ch)
      [] ch.kind = "storageChange" -> storageChange_revert(s, ch)
      [] ch.kind = "refundChange" -> refundChange_revert(s, ch)
      [] ch.kind = "addLogChange" -> addLogChange_revert(s, ch)
      [] ch.kind = "addPreimageChange" -> addPreimageChange_revert(s, ch)
      [] ch.kind = "accessListAddAccountChange" ->
             accessListAddAccountChange_revert(s, ch)
      [] ch.kind = "accessListAddSlotChange" ->
             accessListAddSlotChange_revert(s, ch)

(* ----------------- journalEntry.dirtied, per variant ------------------- *)
createObjectChange_dirtied(ch) == ch.account
\* resetObjectChange.dirtied that names the address of the object it holds.
resetObjectChange_dirtied_prevAddress(ch) == ch.prev.address

resetObjectChange_dirtied(ch) == nilAddr
suicideChange_dirtied(ch) == ch.account
touchChange_dirtied(ch) == ch.account
balanceChange_dirtied(ch) == ch.account
nonceChange_dirtied(ch) == ch.account
codeChange_dirtied(ch) == ch.account
storageChange_dirtied(ch) == ch.account
refundChange_dirtied(ch) == nilAddr
addLogChange_dirtied(ch) == nilAddr
addPreimageChange_dirtied(ch) == nilAddr
accessListAddAccountChange_dirtied(ch) == nilAddr
accessListAddSlotChange_dirtied(ch) == nilAddr

\* entry.dirtied(): dynamic dispatch on the entry's type.
dirtied(ch) ==
    CASE ch.kind = "createObjectChange" -> createObjectChange_dirtied(ch)
      [] ch.kind = "resetObjectChange" -> resetObjectChange_dirtied(ch)
      [] ch.kind = "suicideChange" -> suicideChange_dirtied(ch)
      [] ch.kind = "touchChange" -> touchChange_dirtied(ch)
      [] ch.kind = "balanceChange" -> balanceChange_dirtied(ch)
      [] ch.kind = "nonceChange" -> nonceChange_dirtied(ch)
      [] ch.kind = "codeChange" -> codeChange_dirtied(ch)
      [] ch.kind = "storageChange" -> storageChange_dirtied(ch)
      [] ch.kind = "refundChange" -> refundChange_dirtied(ch)
      [] ch.kind = "addLogChange" -> addLogChange_dirtied(ch)
      [] ch.kind = "addPreimageChange" -> addPreimageChange_dirtied(ch)
      [] ch.kind = "accessListAddAccountChange" ->
             accessListAddAccountChange_dirtied(ch)
      [] ch.kind = "accessListAddSlotChange" ->
             accessListAddSlotChange_dirtied(ch)

(* ------------------------------ journal -------------------------------- *)
\* A journal is [entries, spare, dirties]: entries is the slice j.entries,
\* spare the rest of its backing array (the slots from len to cap, which keep
\* what was last stored in them), dirties the map j.dirties.

\* newJournal()
newJournal == [entries |-> <<>>, spare |-> <<>>, dirties |-> EmptyMap]

\* cap(j.entries)
Cap(j) == Len(j.entries) + Len(j.spare)

\* The capacity append gives a full slice of 16-byte elements (runtime
\* growslice: doubling below 256 elements, every size a size class).
GrowCap(oldCap) == IF oldCap = 0 THEN 1 ELSE 2 * oldCap

\* j.dirties[addr]++ (a missing key reads as 0).
DirtyInc(dirties, addr) ==
    MapPut(dirties, addr, IF addr \in DOMAIN dirties THEN dirties[addr] + 1 ELSE 1)

\* The decrement without the delete at zero.
DirtyDec_keepZero(dirties, addr) ==
    MapPut(dirties, addr, (IF addr \in DOMAIN dirties THEN dirties[addr] ELSE 0) - 1)

\* if j.dirties[addr]--; j.dirties[addr] == 0 { delete(j.dirties, addr) }
DirtyDec(dirties, addr) ==
    LET n == (IF addr \in DOMAIN dirties THEN dirties[addr] ELSE 0) - 1 IN
    IF n = 0 THEN MapDelete(dirties, addr) ELSE MapPut(dirties, addr, n)

\* append(j.entries, entry) on the slice and its backing array.
SliceAppend(j, entry) ==
    IF j.spare = <<>>
    THEN [j EXCEPT !.entries = Append(j.entries, entry),
                   !.spare = [k \in 1..(GrowCap(Cap(j)) - Len(j.entries) - 1)
                                 |-> nilEntry]]
    ELSE [j EXCEPT !.entries = Append(j.entries, entry),
                   !.spare = Tail(j.spare)]

\* journal.append
append(j, entry) ==
    LET j1 == SliceAppend(j, entry) IN
    IF dirtied(entry) # nilAddr
    THEN [j1 EXCEPT !.dirties = DirtyInc(j.dirties, dirtied(entry))]
    ELSE j1

\* journal.dirty that journals a touch record.
dirty_viaAppend(j, addr) == append(j, touchChange(addr))

\* journal.dirty
dirty(j, addr) == [j EXCEPT !.dirties = DirtyInc(j.dirties, addr)]

\* journal.length
length(j) == Len(j.entries)

\* journal.revert, the loop: i starts at len(j.entries) - 1 ...
loopInit(j) == Len(j.entries) - 1

\* The loop condition that runs one record too far.
loopCond_oneMore(i, snapshot) == i >= 0 /\ i >= snapshot - 1

\* The loop condition that stops one record early.
loopCond_stopEarly(i, snapshot) == i > snapshot

\* ... runs while i >= snapshot ...
loopCond(i, snapshot) == i >= snapshot

\* ... and one iteration undoes j.entries[i] and drops its dirty count.
loopDirties(j, i) ==
    LET addr == dirtied(j.entries[i + 1]) IN
    IF addr # nilAddr THEN DirtyDec(j.dirties, addr) ELSE j.dirties

\* j.entries = j.entries[:snapshot]: legal up to cap(j.entries), also beyond
\* len(j.entries), where it brings the backing array's old slots back.
resliceOK(j, snapshot) == snapshot <= Cap(j)

\* The truncation left out.
reslice_forgotten(j, snapshot) == j

reslice(j, snapshot) ==
    LET all == j.entries \o j.spare IN
    [j EXCEPT !.entries = SubSeq(all, 1, snapshot),
              !.spare = SubSeq(all, snapshot + 1, Len(all))]

(* ------------------------------- state --------------------------------- *)
VARIABLES
    statedb,        \* the StateDB: stateObjects, stateObjectsDirty, refund,
                    \* logs, logSize, preimages, accessList
    journal,        \* statedb.journal: entries, spare, dirties
    validRevisions, \* the revisions Snapshot minted that are still valid
    nextRevisionId, \* the id the next revision gets
    pc,             \* "idle", "revert" (inside journal.revert) or "halt"
    i,              \* journal.revert's loop index (0-based, as in Go)
    snapshot,       \* journal.revert's argument
    fault,          \* "none", or the panic that stopped the program
    stale,          \* history: journal positions of invalidated revisions
    forced,         \* history: journal.dirty calls so far, per address
    ops,            \* history: mutator calls so far
    misuses,        \* history: reverts to an invalid revision so far
    last            \* history: the operation last started, and what it saw

\* The variables of the StateDB and its journal.
jvars == <<statedb, journal, validRevisions, nextRevisionId, pc, i, snapshot,
           fault, stale, forced, ops, misuses, last>>

\* The gas-price oracle (package api), a component of its own: it shares no
\* state with the StateDB.
VARIABLES
    oracle,         \* the *Oracle NewOracle builds: lastHead, lastPrice,
                    \* maxPrice, checkBlocks, percentile (nil before)
    pcNew,          \* NewOracle's position
    subscribed,     \* highestSub is registered with event.GlobalEvent
    chClosed,       \* highestBlockCh is closed
    consumer,       \* the purging goroutine: pc and its local lastHead
    purges,         \* history: cache.Purge() calls so far
    published,      \* history: new-head notifications published so far
    seenHead,       \* history: the head of the latest notification
    owed,           \* history: a notification published after NewOracle
                    \* returned asked for a purge that has not happened
    cacheLock,      \* oracle.cacheLock: the writer and the readers holding it
    fetchLock,      \* oracle.fetchLock: its holder, or free
    calls,          \* per caller: the SuggestTipCap call it is in
    chans,          \* per call: the result channel and the quit channel
    workers,        \* the getBlockValues goroutines that have not returned
    hist            \* history: what every call read, started and returned

ovars == <<oracle, pcNew, subscribed, chClosed, consumer, purges, published,
           seenHead, owed, cacheLock, fetchLock, calls, chans, workers, hist>>

vars == <<jvars, ovars>>

\* The StateDB an account loaded from persistence leaves behind.
loadedObject(addr, balance) ==
    [allocated(newObject(addr), 0) EXCEPT !.balance = balance]

newStateDB(objects) ==
    [stateObjects |-> objects, stateObjectsDirty |-> {}, refund |-> 0,
     logs |-> EmptyMap, logSize |-> 0, preimages |-> EmptyMap,
     accessList |-> [addresses |-> {}, slots |-> {}]]

(* ------------------------- read accessors ------------------------------ *)
GetBalance(s, addr) ==
    IF hasStateObject(s, addr) THEN s.stateObjects[addr].balance ELSE 0
GetNonce(s, addr) ==
    IF hasStateObject(s, addr) THEN s.stateObjects[addr].nonce ELSE 0
GetCode(s, addr) ==
    IF hasStateObject(s, addr) THEN s.stateObjects[addr].code ELSE ""
GetCodeHash(s, addr) ==
    IF hasStateObject(s, addr) THEN s.stateObjects[addr].codeHash ELSE CodeHash("")
\* The cached value of a slot, the committed (zero) value when none is cached.
GetState(s, addr, key) ==
    IF hasStateObject(s, addr) /\ key \in DOMAIN s.stateObjects[addr].storage
    THEN s.stateObjects[addr].storage[key] ELSE 0
HasSuicided(s, addr) ==
    IF hasStateObject(s, addr) THEN s.stateObjects[addr].suicided ELSE FALSE
GetLogs(s, txhash) == IF txhash \in DOMAIN s.logs THEN s.logs[txhash] ELSE <<>>

\* Everything the read accessors of the StateDB show.
Observable(s) ==
    [balance |-> [a \in Addr |-> GetBalance(s, a)],
     nonce |-> [a \in Addr |-> GetNonce(s, a)],
     code |-> [a \in Addr |-> GetCode(s, a)],
     codeHash |-> [a \in Addr |-> GetCodeHash(s, a)],
     storage |-> [a \in Addr |-> [k \in Keys |-> GetState(s, a, k)]],
     suicided |-> [a \in Addr |-> HasSuicided(s, a)],
     logs |-> [h \in TxHashes |-> GetLogs(s, h)],
     logSize |-> s.logSize,
     refund |-> s.refund,
     preimages |-> s.preimages,
     accessList |-> s.accessList]

(* ---------------------------- oracle: data ----------------------------- *)
\* const sampleNumber: transactions sampled in a block.
sampleNumber == 3

\* types2.Hash{}, the zero hash.
zeroHash == "0x0"

\* conf.DefaultMaxPrice and conf.DefaultIgnorePrice, scaled down.
DefaultMaxPrice == 8
DefaultIgnorePrice == 2

\* The conf.GpoConfig values NewOracle is called with: one that needs every
\* sanitizing branch, one that needs none but the price cap's.
GpoConfigs ==
    {[Blocks |-> 0, Percentile |-> 150, Default |-> 5, MaxPrice |-> 4,
      IgnorePrice |-> 0],
     [Blocks |-> 2, Percentile |-> 60, Default |-> 1, MaxPrice |-> 0,
      IgnorePrice |-> 3]}

\* What backend.CurrentBlock().Header() may be: no header, or a header with
\* its hash and number.
nilHeader == [nil |-> TRUE, hash |-> zeroHash, number |-> 0]
Headers ==
    {nilHeader,
     [nil |-> FALSE, hash |-> "h0", number |-> 0],
     [nil |-> FALSE, hash |-> "h3", number |-> 3]}

\* A transaction as getBlockValues sees it: its effective tip and whether
\* the block's coinbase sent it.
Tx(tip, fromCoinbase) == [tip |-> tip, fromCoinbase |-> fromCoinbase]

\* What backend.GetBlockByNumber may return: no block with an error, no block
\* without one, or a block with its transactions.
Fetches ==
    {[nil |-> TRUE, err |-> TRUE, txs |-> <<>>],
     [nil |-> TRUE, err |-> FALSE, txs |-> <<>>],
     [nil |-> FALSE, err |-> FALSE,
      txs |-> <<Tx(7, FALSE), Tx(1, FALSE), Tx(9, TRUE), Tx(6, FALSE),
                Tx(3, FALSE)>>]}

\* The new-head notifications the event feed may publish.
HeadEvents ==
    {[hash |-> "h1", parent |-> "h0"],
     [hash |-> "h2", parent |-> "h1"],
     [hash |-> "h3", parent |-> "h1"]}

\* The goroutines that call SuggestTipCap.
Callers == {"c1", "c2"}

\* The nil *Oracle, before NewOracle has built one.
nilOracle ==
    [lastHead |-> zeroHash, lastPrice |-> 0, maxPrice |-> 0, ignorePrice |-> 0,
     checkBlocks |-> 0, percentile |-> 0]

\* A caller that is in no call.
noCall ==
    [pc |-> "idle", id |-> 0, head |-> nilHeader, headHash |-> zeroHash,
     lastHead |-> zeroHash, lastPrice |-> 0, sent |-> 0, exp |-> 0,
     number |-> 0, results |-> <<>>, price |-> 0]

\* Before NewOracle is called.
OracleInit ==
    /\ oracle = nilOracle
    /\ pcNew = "start"
    /\ subscribed = FALSE
    /\ chClosed = FALSE
    /\ consumer = [pc |-> "none", lastHead |-> zeroHash]
    /\ purges = 0
    /\ published = 0
    /\ seenHead = zeroHash
    /\ owed = FALSE
    /\ cacheLock = [writer |-> "none", readers |-> {}]
    /\ fetchLock = "free"
    /\ calls = [c \in Callers |-> noCall]
    /\ chans = EmptyMap
    /\ workers = {}
    /\ hist = [made |-> 0, written |-> {}, overlap |-> {}, log |-> <<>>,
               ret |-> [c \in Callers |-> [how |-> "none"]]]

(* ------------------------------- Init ---------------------------------- *)
\* A StateDB at the start of a transaction: the accounts of Stored are cached
\* (a load is not journalled) and carry the dirty marker an earlier
\* transaction of the block left on them; the journal is new.
Init ==
    /\ \E b \in StoredBalance :
          statedb = [newStateDB([a \in Stored |-> loadedObject(a, b)])
                         EXCEPT !.stateObjectsDirty = Stored]
    /\ journal = newJournal
    /\ validRevisions = <<>>
    /\ nextRevisionId = 0
    /\ pc = "idle"
    /\ i = 0
    /\ snapshot = 0
    /\ fault = "none"
    /\ stale = {}
    /\ forced = [a \in Addr |-> 0]
    /\ ops = 0
    /\ misuses = 0
    /\ last = [op |-> "new"]
    /\ OracleInit

(* ------------------------------ mutators ------------------------------- *)
\* A mutator runs to completion between reverts.
Idle(n) == pc = "idle" /\ ops < MaxOps /\ Len(journal.entries) + n <= MaxJournal

Frame ==
    /\ ops' = ops + 1
    /\ UNCHANGED <<validRevisions, nextRevisionId, pc, i, snapshot, fault,
                   stale, forced, misuses>>
    /\ UNCHANGED ovars

\* GetOrNewStateObject: the object of addr, created (and journalled as
\* created) when there is none.  sj is the pair [s, j] of StateDB and journal.
GetOrNewStateObject(sj, addr) ==
    IF hasStateObject(sj.s, addr) THEN sj
    ELSE [s |-> setStateObject(sj.s, allocated(newObject(addr), ops + 1)),
          j |-> append(sj.j, createObjectChange(addr))]

\* How many records a mutator that auto-creates appends for addr.
Records(addr) == IF hasStateObject(statedb, addr) THEN 1 ELSE 2

SetBalance(addr, amount) ==
    /\ Idle(Records(addr))
    /\ LET sj == GetOrNewStateObject([s |-> statedb, j |-> journal], addr) IN
       /\ journal' = append(sj.j, balanceChange(addr, sj.s.stateObjects[addr].balance))
       /\ statedb' = setBalance(sj.s, addr, amount)
    /\ last' = [op |-> "SetBalance"]
    /\ Frame

SetNonce(addr, nonce) ==
    /\ Idle(Records(addr))
    /\ LET sj == GetOrNewStateObject([s |-> statedb, j |-> journal], addr) IN
       /\ journal' = append(sj.j, nonceChange(addr, sj.s.stateObjects[addr].nonce))
       /\ statedb' = setNonce(sj.s, addr, nonce)
    /\ last' = [op |-> "SetNonce"]
    /\ Frame

SetCode(addr, code) ==
    /\ Idle(Records(addr))
    /\ LET sj == GetOrNewStateObject([s |-> statedb, j |-> journal], addr)
           obj == sj.s.stateObjects[addr] IN
       /\ journal' = append(sj.j, codeChange(addr, obj.code, obj.codeHash))
       /\ statedb' = setCode(sj.s, addr, CodeHash(code), code)
    /\ last' = [op |-> "SetCode"]
    /\ Frame

SetState(addr, key, value) ==
    /\ Idle(Records(addr))
    /\ LET sj == GetOrNewStateObject([s |-> statedb, j |-> journal], addr) IN
       /\ journal' = append(sj.j, storageChange(addr, key, GetState(sj.s, addr, key)))
       /\ statedb' = setState(sj.s, addr, key, value)
    /\ last' = [op |-> "SetState"]
    /\ Frame

\* self-destruct: nothing to destroy when the address has no object.
Suicide(addr) ==
    /\ Idle(1)
    /\ hasStateObject(statedb, addr)
    /\ LET obj == statedb.stateObjects[addr] IN
       /\ journal' = append(journal, suicideChange(addr, obj.suicided, obj.balance))
       /\ statedb' = setBalance([statedb EXCEPT !.stateObjects[addr].suicided = TRUE],
                                addr, 0)
    /\ last' = [op |-> "Suicide"]
    /\ Frame

\* create or reset object: a fresh object, the previous one (if any) kept
\* whole in the object-reset record.
CreateAccount(addr) ==
    /\ Idle(1)
    /\ journal' = IF hasStateObject(statedb, addr)
                  THEN append(journal,
                              resetObjectChange(statedb.stateObjects[addr],
                                                statedb.stateObjects[addr].suicided))
                  ELSE append(journal, createObjectChange(addr))
    /\ statedb' = setStateObject(statedb, allocated(newObject(addr), ops + 1))
    /\ last' = [op |-> "CreateAccount", addr |-> addr,
                objects |-> statedb.stateObjects, len |-> Len(journal.entries)]
    /\ Frame

AddLog(txhash, entry) ==
    /\ Idle(1)
    /\ journal' = append(journal, addLogChange(txhash))
    /\ statedb' = [statedb EXCEPT
                     !.logs = MapPut(statedb.logs, txhash,
                                     Append(GetLogs(statedb, txhash), entry)),
                     !.logSize = statedb.logSize + 1]
    /\ last' = [op |-> "AddLog"]
    /\ Frame

\* add preimage: a known hash is left alone (nothing journalled).
AddPreimage(hash, data) ==
    /\ Idle(1)
    /\ hash \notin DOMAIN statedb.preimages
    /\ journal' = append(journal, addPreimageChange(hash))
    /\ statedb' = [statedb EXCEPT !.preimages = MapPut(statedb.preimages, hash, data)]
    /\ last' = [op |-> "AddPreimage"]
    /\ Frame

AddRefund(gas) ==
    /\ Idle(1)
    /\ journal' = append(journal, refundChange(statedb.refund))
    /\ statedb' = [statedb EXCEPT !.refund = statedb.refund + gas]
    /\ last' = [op |-> "AddRefund"]
    /\ Frame

\* sub refund: callers never subtract more than the total.
SubRefund(gas) ==
    /\ Idle(1)
    /\ gas <= statedb.refund
    /\ journal' = append(journal, refundChange(statedb.refund))
    /\ statedb' = [statedb EXCEPT !.refund = statedb.refund - gas]
    /\ last' = [op |-> "SubRefund"]
    /\ Frame

\* add an address to the access list: journalled only when it is new.
AddAddressToAccessList(addr) ==
    /\ Idle(1)
    /\ addr \notin statedb.accessList.addresses
    /\ journal' = append(journal, accessListAddAccountChange(addr))
    /\ statedb' = [statedb EXCEPT !.accessList.addresses = @ \cup {addr}]
    /\ last' = [op |-> "AddAddressToAccessList"]
    /\ Frame

\* add an (address, slot) pair: the address record first when the address is
\* new, then the slot record.
AddSlotToAccessList(addr, slot) ==
    LET addrMod == addr \notin statedb.accessList.addresses
        j1 == IF addrMod THEN append(journal, accessListAddAccountChange(addr))
              ELSE journal
    IN
    /\ Idle(IF addrMod THEN 2 ELSE 1)
    /\ <<addr, slot>> \notin statedb.accessList.slots
    /\ journal' = append(j1, accessListAddSlotChange(addr, slot))
    /\ statedb' = [statedb EXCEPT !.accessList.addresses = @ \cup {addr},
                                  !.accessList.slots = @ \cup {<<addr, slot>>}]
    /\ last' = [op |-> "AddSlotToAccessList", address |-> addr, slot |-> slot,
                addrMod |-> addrMod, len |-> Len(journal.entries)]
    /\ Frame

\* force-touch: journals a touch record for the address.
Touch(addr) ==
    /\ Idle(1)
    /\ journal' = append(journal, touchChange(addr))
    /\ last' = [op |-> "Touch"]
    /\ UNCHANGED statedb
    /\ Frame

\* journal.dirty(addr), the force-dirty operation.
JournalDirty(addr) ==
    /\ Idle(0)
    /\ journal' = dirty(journal, addr)
    /\ forced' = [forced EXCEPT ![addr] = @ + 1]
    /\ last' = [op |-> "dirty", addr |-> addr, journal |-> journal]
    /\ ops' = ops + 1
    /\ UNCHANGED <<statedb, validRevisions, nextRevisionId, pc, i, snapshot,
                   fault, stale, misuses>>
    /\ UNCHANGED ovars

(* ------------------------- snapshot and revert ------------------------- *)
\* snapshot(): a revision {id, journalIndex}.  saved is history: what the
\* StateDB and the journal were when the revision was minted.
Snapshot ==
    /\ pc = "idle"
    /\ nextRevisionId < MaxRevisions
    /\ validRevisions' =
           Append(validRevisions,
                  [id |-> nextRevisionId, journalIndex |-> length(journal),
                   saved |-> [obs |-> Observable(statedb),
                              objects |-> statedb.stateObjects,
                              entries |-> journal.entries,
                              dirties |-> journal.dirties,
                              forced |-> forced]])
    /\ nextRevisionId' = nextRevisionId + 1
    /\ last' = [op |-> "Snapshot"]
    /\ UNCHANGED <<statedb, journal, pc, i, snapshot, fault, stale, forced, ops,
                   misuses>>
    /\ UNCHANGED ovars

\* Positions of the revisions that are valid now.
ValidPositions == {validRevisions[k].journalIndex : k \in 1..Len(validRevisions)}

\* Entering journal.revert(statedb, position).
EnterRevert(position, rev) ==
    /\ pc' = "revert"
    /\ snapshot' = position
    /\ i' = loopInit(journal)
    /\ last' = [op |-> "revert", from |-> Len(journal.entries), to |-> position,
                rev |-> rev, nested |-> (0 < rev /\ rev < Len(validRevisions)),
                saved |-> IF rev > 0 THEN validRevisions[rev].saved
                          ELSE [obs |-> Observable(statedb),
                                objects |-> statedb.stateObjects,
                                entries |-> journal.entries,
                                dirties |-> journal.dirties, forced |-> forced],
                undone |-> <<>>, statedb |-> statedb, journal |-> journal,
                before |-> [statedb |-> statedb, dirties |-> journal.dirties]]
    /\ UNCHANGED <<statedb, journal, validRevisions, nextRevisionId, fault,
                   stale, forced, ops>>
    /\ UNCHANGED ovars

\* revert to snapshot(revision), with a revision that is valid.
RevertToSnapshot(k) ==
    /\ pc = "idle"
    /\ k \in 1..Len(validRevisions)
    /\ EnterRevert(validRevisions[k].journalIndex, k)
    /\ UNCHANGED misuses

\* revert to snapshot(revision) with a revision an earlier revert invalidated:
\* nothing checks the revision, its journalIndex goes to journal.revert as is.
RevertToStale(position) ==
    /\ pc = "idle"
    /\ position \in stale \ ValidPositions
    /\ misuses < MaxMisuse
    /\ misuses' = misuses + 1
    /\ EnterRevert(position, 0)

\* One iteration of journal.revert's loop.
RevertStep ==
    /\ pc = "revert"
    /\ loopCond(i, snapshot)
    /\ IF revertPanics(statedb, journal.entries[i + 1])
       THEN /\ fault' = "panic"
            /\ pc' = "halt"
            /\ UNCHANGED <<statedb, journal, i, last>>
       ELSE /\ statedb' = entryRevert(statedb, journal.entries[i + 1])
            /\ journal' = [journal EXCEPT !.dirties = loopDirties(journal, i)]
            /\ i' = i - 1
            /\ last' = [last EXCEPT
                            !.undone = Append(@, i),
                            !.before = [statedb |-> statedb,
                                        dirties |-> journal.dirties]]
            /\ UNCHANGED <<pc, fault>>
    /\ UNCHANGED <<validRevisions, nextRevisionId, snapshot, stale, forced, ops,
                   misuses>>
    /\ UNCHANGED ovars

\* The revisions a revert to position (of revision k, 0 for none) leaves valid.
Surviving(position, k) ==
    IF k > 0 THEN SubSeq(validRevisions, 1, k - 1)
    ELSE SelectSeq(validRevisions, LAMBDA r : r.journalIndex <= position)

\* After the loop: j.entries = j.entries[:snapshot].
RevertEnd ==
    /\ pc = "revert"
    /\ ~loopCond(i, snapshot)
    /\ IF resliceOK(journal, snapshot)
       THEN /\ journal' = reslice(journal, snapshot)
            /\ pc' = "idle"
            /\ validRevisions' = Surviving(snapshot, last.rev)
            /\ stale' = stale \cup
                  {validRevisions[k].journalIndex :
                      k \in (Len(Surviving(snapshot, last.rev)) + 1)
                              ..Len(validRevisions)}
            /\ UNCHANGED fault
       ELSE /\ fault' = "panic"
            /\ pc' = "halt"
            /\ UNCHANGED <<journal, validRevisions, stale>>
    /\ UNCHANGED <<statedb, nextRevisionId, i, snapshot, forced, ops, misuses,
                   last>>
    /\ UNCHANGED ovars

(* --------------------------- specifications ---------------------------- *)
Mutate ==
    \/ \E a \in Addr, b \in Balances : SetBalance(a, b)
    \/ \E a \in Fresh, n \in Nonces : SetNonce(a, n)
    \/ \E a \in Fresh, c \in Codes : SetCode(a, c)
    \/ \E a \in Fresh, k \in Keys, w \in Words : SetState(a, k, w)
    \/ \E a \in Addr : Suicide(a)
    \/ \E a \in Addr : CreateAccount(a)
    \/ \E h \in TxHashes, l \in LogData : AddLog(h, l)
    \/ \E h \in Preimages, d \in LogData : AddPreimage(h, d)
    \/ \E g \in Gas : AddRefund(g)
    \/ \E g \in Gas : SubRefund(g)
    \/ \E a \in Stored : AddAddressToAccessList(a)
    \/ \E a \in Stored, sl \in Slots : AddSlotToAccessList(a, sl)
    \/ \E a \in Stored : Touch(a)
    \/ \E a \in Addr : JournalDirty(a)
    \/ Snapshot

\* Correct usage: every revert is to a valid revision.
Next ==
    \/ Mutate
    \/ \E k \in 1..MaxRevisions : RevertToSnapshot(k)
    \/ RevertStep
    \/ RevertEnd

Spec == Init /\ [][Next]_vars

\* Misuse: a caller may also reuse a revision that is no longer valid.
NextMisuse ==
    \/ Next
    \/ \E p \in 0..MaxJournal : RevertToStale(p)

SpecMisuse == Init /\ [][NextMisuse]_vars

TypeOK ==
    /\ pc \in {"idle", "revert", "halt"}
    /\ fault \in {"none", "panic"}
    /\ Len(journal.entries) <= MaxJournal
    /\ DOMAIN statedb.stateObjects \subseteq Addr

(* ------------------------- derived notions ----------------------------- *)
\* The records not yet undone: during a revert those up to index i.
Live == IF pc = "revert" THEN SubSeq(journal.entries, 1, i + 1)
        ELSE journal.entries

\* How many records of seq dirty addr.
DirtyCount(seq, addr) ==
    Cardinality({n \in 1..Len(seq) : dirtied(seq[n]) = addr})

\* The Dirty Index count of addr, 0 when addr is not in the index.
IndexCount(dirties, addr) == IF addr \in DOMAIN dirties THEN dirties[addr] ELSE 0

\* A revert finished normally and nothing ran since.
RevertDone == pc = "idle" /\ last.op = "revert"

\* A revert is running or has just finished.
InRevert == last.op = "revert" /\ pc \in {"revert", "idle"}

\* The record the latest loop iteration undid.
LastUndone == last.journal.entries[last.undone[Len(last.undone)] + 1]

(* ------------------------------- C1 ------------------------------------ *)
\* C1: when a revert to a valid revision has finished, everything the read
\* accessors show (balance, nonce, code, storage slot and destruction flag of
\* every address, the log list of every hash and the log count, the refund
\* total, the preimages, the access list) is what it was when Snapshot
\* returned that revision.
RevertRoundTrip ==
    (RevertDone /\ last.rev > 0) => Observable(statedb) = last.saved.obs

\* A revert to a valid revision that undid at least two records and changed
\* what the accessors show.
RevertRoundTripWitness ==
    /\ RevertDone
    /\ last.rev > 0
    /\ Len(last.undone) >= 2
    /\ Observable(last.statedb) # Observable(statedb)

InvalidRevertNeverGrows ==
    ~(RevertDone /\ last.rev = 0 /\ Len(journal.entries) > last.from)

(* ------------------------------- C4 ------------------------------------ *)
\* What the Dirty Index must be once the records at the indices in undone
\* are dropped from the index dirties0.
IndexAfter(dirties0, entries0, undone, a) ==
    IndexCount(dirties0, a)
        - Cardinality({n \in 1..Len(undone) : dirtied(entries0[undone[n] + 1]) = a})

\* C4: a revert to a position in 0..length undoes the records at indices
\* length-1, length-2, ..., position, each once and in descending order;
\* after each undo the Dirty Index has lost one count for that record's
\* address; the records below position stay as they were; the revert ends
\* with the journal's length equal to position.
RevertOrder ==
    InRevert =>
        /\ \A n \in 1..Len(last.undone) :
              /\ last.undone[n] = last.from - n
              /\ last.undone[n] >= last.to
        /\ \A a \in Addr :
              IndexCount(journal.dirties, a) =
                  IndexAfter(last.journal.dirties, last.journal.entries,
                             last.undone, a)
        /\ SubSeq(journal.entries, 1, last.to) =
               SubSeq(last.journal.entries, 1, last.to)
        /\ pc = "revert" => /\ journal.entries = last.journal.entries
                            /\ i = last.from - 1 - Len(last.undone)
        /\ pc = "idle" => /\ Len(last.undone) = last.from - last.to
                          /\ Len(journal.entries) = last.to

\* A finished revert to a position above 0 that undid two records.
RevertOrderWitness ==
    /\ RevertDone
    /\ last.to >= 1
    /\ Len(last.undone) >= 2
    /\ Len(journal.entries) = last.to

AccessListOrdered ==
    /\ \A p \in statedb.accessList.slots : p[1] \in statedb.accessList.addresses
    /\ (last.op = "AddSlotToAccessList" /\ last.addrMod) =>
          /\ Len(journal.entries) = last.len + 2
          /\ journal.entries[last.len + 1] =
                 accessListAddAccountChange(last.address)
          /\ journal.entries[last.len + 2] =
                 accessListAddSlotChange(last.address, last.slot)
    /\ (last.op = "AddSlotToAccessList" /\ ~last.addrMod) =>
          /\ Len(journal.entries) = last.len + 1
          /\ journal.entries[last.len + 1] =
                 accessListAddSlotChange(last.address, last.slot)

\* Inside a revert: the slot record of a pair was just undone, its address
\* is still in the access list and the address record is the next to undo.
AccessListWitness ==
    /\ pc = "revert"
    /\ last.undone # <<>>
    /\ LastUndone.kind = "accessListAddSlotChange"
    /\ LastUndone.address \in statedb.accessList.addresses
    /\ loopCond(i, snapshot)
    /\ journal.entries[i + 1] = accessListAddAccountChange(LastUndone.address)

(* ------------------------------- C7 ------------------------------------ *)
\* C7: a revert to a position equal to the journal's length undoes no
\* record and leaves the StateDB, the record sequence (its backing array
\* included) and the Dirty Index as they were; so does every repetition.
RevertToTailNoop ==
    (InRevert /\ last.to = last.from) =>
        /\ last.undone = <<>>
        /\ statedb = last.statedb
        /\ journal = last.journal

\* A finished revert to the tail of a journal that holds records, at a
\* position an earlier revert had already been made to.
RevertToTailWitness ==
    /\ RevertDone
    /\ last.to = last.from
    /\ last.from >= 1
    /\ last.to \in stale

RevertNeverFaults ==
    /\ fault = "none"
    /\ pc # "halt"
    /\ pc = "revert" =>
          /\ snapshot <= Len(journal.entries)
          /\ resliceOK(journal, snapshot)
          /\ i + 1 - snapshot = last.from - last.to - Len(last.undone)
          /\ i + 1 - snapshot >= 0
          /\ loopCond(i, snapshot) =>
                LET ch == journal.entries[i + 1] IN
                /\ ~revertPanics(statedb, ch)
                /\ ch.kind \in DerefKinds => hasStateObject(statedb, ch.account)
                /\ ch.kind = "addLogChange" => Len(GetLogs(statedb, ch.txhash)) >= 1

\* Inside a revert: the next record to undo changes an account whose
\* object-created record this revert undoes later.
RevertNeverFaultsWitness ==
    /\ pc = "revert"
    /\ loopCond(i, snapshot)
    /\ journal.entries[i + 1].kind \in DerefKinds
    /\ \E n \in (snapshot + 1)..i :
          journal.entries[n] = createObjectChange(journal.entries[i + 1].account)

(* ------------------------------- C10 ----------------------------------- *)
\* The sum of the lengths of the per-hash log lists.
RECURSIVE SumLogs(_, _)
SumLogs(logs, hs) ==
    IF hs = {} THEN 0
    ELSE LET h == CHOOSE x \in hs : TRUE IN Len(logs[h]) + SumLogs(logs, hs \ {h})

\* C10: the undo of a log-added record for hash H drops the last log of H's
\* list (the whole list when it held one log), leaves the list of every other
\* hash alone and takes one off the log count; and in every state the log
\* count is the sum of the lengths of the per-hash lists and no list is
\* present but empty.
LogUndo ==
    /\ statedb.logSize = SumLogs(statedb.logs, DOMAIN statedb.logs)
    /\ \A h \in DOMAIN statedb.logs : Len(statedb.logs[h]) >= 1
    /\ (InRevert /\ last.undone # <<>> /\ LastUndone.kind = "addLogChange") =>
          LET H == LastUndone.txhash
              old == last.before.statedb.logs
          IN
          /\ H \in DOMAIN old
          /\ Len(old[H]) = 1 => H \notin DOMAIN statedb.logs
          /\ Len(old[H]) > 1 =>
                /\ H \in DOMAIN statedb.logs
                /\ statedb.logs[H] = SubSeq(old[H], 1, Len(old[H]) - 1)
          /\ \A h \in TxHashes \ {H} :
                /\ h \in DOMAIN statedb.logs <=> h \in DOMAIN old
                /\ h \in DOMAIN old => statedb.logs[h] = old[h]
          /\ statedb.logSize = last.before.statedb.logSize - 1

\* Two logs under one hash, a log under another, and the revert to the
\* snapshot taken before the second: one log is left under the hash.
LogUndoWitness ==
    /\ RevertDone
    /\ Len(last.undone) = 1
    /\ LastUndone.kind = "addLogChange"
    /\ Len(GetLogs(statedb, LastUndone.txhash)) = 1
    /\ Len(GetLogs(last.statedb, LastUndone.txhash)) = 2
    /\ \E h \in DOMAIN statedb.logs : h # LastUndone.txhash

(* ------------------------------- C11 ----------------------------------- *)
\* The records a revert undoes: those above position to, oldest first.
Undone == SubSeq(last.journal.entries, last.to + 1, last.from)

\* The oldest record a revert undoes, the one appended right after the
\* snapshot it goes back to.
FirstAbove == last.journal.entries[last.to + 1]

\* The revert undoes a self-destruct record of address a.
UndoesSuicide(a) ==
    \E n \in 1..Len(Undone) :
        Undone[n].kind = "suicideChange" /\ Undone[n].account = a

\* What a revert to the snapshot taken just before self-destruct(A) does to A:
\* flag and balance are the f and b of the record and of the snapshot, nonce,
\* code and storage are the snapshot's, and those of the destroyed account
\* when the self-destruct record is all the revert undoes.
SuicideRestored ==
    FirstAbove.kind = "suicideChange" =>
        LET A == FirstAbove.account
            now == Observable(statedb)
            was == Observable(last.statedb)
        IN
        /\ hasStateObject(statedb, A)
        /\ now.suicided[A] = FirstAbove.prev
        /\ now.balance[A] = FirstAbove.prevbalance
        /\ now.suicided[A] = last.saved.obs.suicided[A]
        /\ now.balance[A] = last.saved.obs.balance[A]
        /\ now.nonce[A] = last.saved.obs.nonce[A]
        /\ now.code[A] = last.saved.obs.code[A]
        /\ now.codeHash[A] = last.saved.obs.codeHash[A]
        /\ now.storage[A] = last.saved.obs.storage[A]
        /\ Len(Undone) = 1 =>
              /\ now.nonce[A] = was.nonce[A]
              /\ now.code[A] = was.code[A]
              /\ now.codeHash[A] = was.codeHash[A]
              /\ now.storage[A] = was.storage[A]

LiveResets == {n \in 1..Len(Live) : Live[n].kind = "resetObjectChange"}

\* No aliasing: the object an object-reset record holds is not the live
\* object of any address (so no mutator, which writes through the live
\* object, can change it), no two records hold the same object, and no two
\* addresses share one.
NoAliasing ==
    /\ \A n \in LiveResets, a \in DOMAIN statedb.stateObjects :
          statedb.stateObjects[a].ptr # Live[n].prev.ptr
    /\ \A n, m \in LiveResets : n # m => Live[n].prev.ptr # Live[m].prev.ptr
    /\ \A a, b \in DOMAIN statedb.stateObjects :
          a # b => statedb.stateObjects[a].ptr # statedb.stateObjects[b].ptr

\* The object without its storage cache.
Scalars(object) == [object EXCEPT !.storage = EmptyMap]

\* C12: the object-reset record of a reset of A holds the object that was
\* live at the moment of the reset, whole (balance, nonce, code, storage
\* cache, destruction flag), and the reset installs another, fresh object;
\* the undo of the record reinstalls exactly the object it holds and touches
\* no other address; the object a record holds is never the live object of
\* an address, so no mutation applied to A after the reset changes it; and
\* after a revert to the snapshot taken just before the reset A is the
\* object it was then.
ObjectResetUndo ==
    /\ NoAliasing
    /\ (last.op = "CreateAccount" /\ last.addr \in DOMAIN last.objects) =>
          /\ Len(journal.entries) = last.len + 1
          /\ journal.entries[last.len + 1].kind = "resetObjectChange"
          /\ journal.entries[last.len + 1].prev = last.objects[last.addr]
          /\ Scalars(statedb.stateObjects[last.addr]) =
                 Scalars(allocated(newObject(last.addr),
                                   statedb.stateObjects[last.addr].ptr))
          /\ statedb.stateObjects[last.addr].storage = EmptyMap
    /\ (InRevert /\ last.undone # <<>> /\ LastUndone.kind = "resetObjectChange") =>
          LET A == LastUndone.prev.address IN
          /\ hasStateObject(statedb, A)
          /\ statedb.stateObjects[A] = LastUndone.prev
          /\ DOMAIN statedb.stateObjects = DOMAIN last.before.statedb.stateObjects
          /\ \A a \in DOMAIN statedb.stateObjects \ {A} :
                statedb.stateObjects[a] = last.before.statedb.stateObjects[a]
    /\ (RevertDone /\ last.rev > 0 /\ last.from > last.to
            /\ FirstAbove.kind = "resetObjectChange") =>
          LET A == FirstAbove.prev.address IN
          /\ A \in DOMAIN last.saved.objects
          /\ hasStateObject(statedb, A)
          /\ Scalars(statedb.stateObjects[A]) = Scalars(last.saved.objects[A])
          /\ \A k \in Keys :
                GetState(statedb, A, k) = last.saved.obs.storage[A][k]

\* Snapshot, reset of the stored account, a balance written to the new
\* object, and the revert: the account is the stored one again.
ObjectResetUndoWitness ==
    /\ RevertDone
    /\ last.rev > 0
    /\ Len(Undone) >= 2
    /\ FirstAbove.kind = "resetObjectChange"
    /\ FirstAbove.prev.balance \in StoredBalance
    /\ GetBalance(last.statedb, FirstAbove.prev.address) \in Balances
    /\ last.statedb.stateObjects[FirstAbove.prev.address].ptr # FirstAbove.prev.ptr
    /\ statedb.stateObjects[FirstAbove.prev.address] = FirstAbove.prev

(* ------------------------------- C13 ----------------------------------- *)
\* The revert undoes the object-created record of address a.
UndoesCreate(a) ==
    \E n \in 1..Len(Undone) : Undone[n] = createObjectChange(a)

\* What the undo of an object-created record for A does: A's State Object
\* and A's dirty marker are gone, the object and the marker of every other
\* address are as they were before the undo.
CreateUndone ==
    (InRevert /\ last.undone # <<>> /\ LastUndone.kind = "createObjectChange") =>
        LET A == LastUndone.account
            old == last.before.statedb
        IN
        /\ ~hasStateObject(statedb, A)
        /\ A \notin statedb.stateObjectsDirty
        /\ DOMAIN statedb.stateObjects = DOMAIN old.stateObjects \ {A}
        /\ \A a \in DOMAIN statedb.stateObjects :
              statedb.stateObjects[a] = old.stateObjects[a]
        /\ statedb.stateObjectsDirty = old.stateObjectsDirty \ {A}

AccountKinds ==
    {"createObjectChange", "suicideChange", "balanceChange", "nonceChange",
     "storageChange", "codeChange", "touchChange"}
NoAccountKinds ==
    {"refundChange", "addLogChange", "addPreimageChange", "resetObjectChange",
     "accessListAddAccountChange", "accessListAddSlotChange"}

\* The records among seq[from..to] that carry account a.
OwnRecords(seq, from, to, a) ==
    {n \in from..to : seq[n].kind \in AccountKinds /\ seq[n].account = a}

\* C14: an append or an undo of a record that carries no account (refund,
\* log, preimage, object-reset, access-list address, access-list slot)
\* leaves the Dirty Index as it is; an append or an undo of an
\* object-created, self-destruct, balance, nonce, storage, code or touch
\* record moves the count of its own address by exactly one (up on append,
\* down on undo) and the count of no other address.
DirtyFrame ==
    [][/\ (pc = "idle" /\ forced' = forced
             /\ Len(journal'.entries) > Len(journal.entries)) =>
            LET from == Len(journal.entries) + 1
                to == Len(journal'.entries)
            IN
            /\ \A n \in from..to :
                  journal'.entries[n].kind \in AccountKinds \cup NoAccountKinds
            /\ \A a \in Addr :
                  IndexCount(journal'.dirties, a) =
                      IndexCount(journal.dirties, a)
                          + Cardinality(OwnRecords(journal'.entries, from, to, a))
            /\ (\A n \in from..to : journal'.entries[n].kind \in NoAccountKinds)
                  => journal'.dirties = journal.dirties
       /\ (pc = "revert" /\ i' = i - 1) =>
            LET ch == journal.entries[i + 1] IN
            /\ ch.kind \in AccountKinds \cup NoAccountKinds
            /\ \A a \in Addr :
                  IndexCount(journal'.dirties, a) =
                      IndexCount(journal.dirties, a)
                          - Cardinality(OwnRecords(journal.entries, i + 1, i + 1, a))
            /\ ch.kind \in NoAccountKinds => journal'.dirties = journal.dirties
            /\ DOMAIN journal'.dirties \subseteq DOMAIN journal.dirties]_vars

\* Inside a revert: the undo of a record with an account took one off the
\* count of its address, and the undo of a record without one, just done,
\* left the Dirty Index as it was.
DirtyFrameWitness ==
    /\ InRevert
    /\ Len(last.undone) >= 2
    /\ LastUndone.kind \in NoAccountKinds
    /\ journal.dirties = last.before.dirties
    /\ LET first == last.journal.entries[last.from] IN
       /\ first.kind \in AccountKinds
       /\ IndexCount(journal.dirties, first.account) =
              IndexCount(last.journal.dirties, first.account) - 1

(* ===================== the gas-price oracle (api) ====================== *)
\* The variables of the new-head subscription, and those of SuggestTipCap.
feedVars == <<subscribed, chClosed, consumer, purges, published, seenHead, owed>>
callVars == <<cacheLock, fetchLock, calls, chans, workers>>

(* --------------------------- NewOracle --------------------------------- *)
\* blocks := params.Blocks; if blocks < 1 { blocks = 1 }
sanitizeBlocks(blocks) == IF blocks < 1 THEN 1 ELSE blocks

\* percent := params.Percentile, brought into 0..100
sanitizePercentile(percent) ==
    IF percent < 0 THEN 0 ELSE IF percent > 100 THEN 100 ELSE percent

\* maxPrice := params.MaxPrice, conf.DefaultMaxPrice when nil (0) or <= 0
sanitizeMaxPrice(maxPrice) == IF maxPrice <= 0 THEN DefaultMaxPrice ELSE maxPrice

\* ignorePrice := params.IgnorePrice, conf.DefaultIgnorePrice when nil or <= 0
sanitizeIgnorePrice(ignorePrice) ==
    IF ignorePrice <= 0 THEN DefaultIgnorePrice ELSE ignorePrice

\* return &Oracle{...}: lastHead is left the zero hash, lastPrice is
\* params.Default as given.
newOracle(params) ==
    [lastHead |-> zeroHash,
     lastPrice |-> params.Default,
     maxPrice |-> sanitizeMaxPrice(params.MaxPrice),
     ignorePrice |-> sanitizeIgnorePrice(params.IgnorePrice),
     checkBlocks |-> sanitizeBlocks(params.Blocks),
     percentile |-> sanitizePercentile(params.Percentile)]

\* highestBlockCh := make(chan ...); defer close(highestBlockCh)
\* highestSub := event.GlobalEvent.Subscribe(highestBlockCh)
\* defer highestSub.Unsubscribe()
NewOracleSubscribe ==
    /\ pcNew = "start"
    /\ subscribed' = TRUE
    /\ pcNew' = "subscribed"
    /\ UNCHANGED <<oracle, chClosed, consumer, purges, published, seenHead, owed,
                   hist>>
    /\ UNCHANGED <<callVars, jvars>>

\* go func() { var lastHead types2.Hash; for ev := range highestBlockCh ... }()
NewOracleGo ==
    /\ pcNew = "subscribed"
    /\ consumer' = [pc |-> "range", lastHead |-> zeroHash]
    /\ pcNew' = "spawned"
    /\ UNCHANGED <<oracle, subscribed, chClosed, purges, published, seenHead,
                   owed, hist>>
    /\ UNCHANGED <<callVars, jvars>>

\* return &Oracle{...}: the result is built, the deferred calls are next.
NewOracleReturn(params) ==
    /\ pcNew = "spawned"
    /\ oracle' = newOracle(params)
    /\ hist' = [hist EXCEPT !.written = {<<zeroHash, params.Default>>}]
    /\ pcNew' = "deferUnsubscribe"
    /\ UNCHANGED <<feedVars, callVars, jvars>>

\* The deferred highestSub.Unsubscribe() (deferred last, so it runs first).
DeferUnsubscribe ==
    /\ pcNew = "deferUnsubscribe"
    /\ subscribed' = FALSE
    /\ pcNew' = "deferClose"
    /\ UNCHANGED <<oracle, chClosed, consumer, purges, published, seenHead, owed,
                   hist>>
    /\ UNCHANGED <<callVars, jvars>>

\* The deferred close(highestBlockCh); NewOracle has returned after it.
DeferClose ==
    /\ pcNew = "deferClose"
    /\ chClosed' = TRUE
    /\ pcNew' = "returned"
    /\ UNCHANGED <<oracle, subscribed, consumer, purges, published, seenHead,
                   owed, hist>>
    /\ UNCHANGED <<callVars, jvars>>

(* ------------------- the new-head feed and its consumer ---------------- *)
\* The notification asks for a purge: its parent is not the head seen last.
asksPurge(ev, lastHead) == ev.parent # lastHead

\* The feed publishes a notification while highestBlockCh is not subscribed:
\* nobody receives it.
PublishUnheard(ev) ==
    /\ published < MaxEvents
    /\ ~subscribed
    /\ published' = published + 1
    /\ seenHead' = ev.hash
    /\ owed' = (owed \/ (pcNew = "returned" /\ asksPurge(ev, seenHead)))
    /\ UNCHANGED <<oracle, pcNew, subscribed, chClosed, consumer, purges, hist>>
    /\ UNCHANGED <<callVars, jvars>>

\* The feed publishes a notification while highestBlockCh is subscribed and
\* the goroutine is in its range loop: one iteration of the loop,
\* if ev.Block.ParentHash() != lastHead { cache.Purge() }; lastHead = Hash().
\* (Before the goroutine runs the feed's send waits.)
PublishReceived(ev) ==
    /\ published < MaxEvents
    /\ subscribed
    /\ ~chClosed
    /\ consumer.pc = "range"
    /\ published' = published + 1
    /\ seenHead' = ev.hash
    /\ purges' = IF asksPurge(ev, consumer.lastHead) THEN purges + 1 ELSE purges
    /\ owed' = IF asksPurge(ev, consumer.lastHead) THEN FALSE
               ELSE (owed \/ (pcNew = "returned" /\ asksPurge(ev, seenHead)))
    /\ consumer' = [consumer EXCEPT !.lastHead = ev.hash]
    /\ UNCHANGED <<oracle, pcNew, subscribed, chClosed, hist>>
    /\ UNCHANGED <<callVars, jvars>>

\* for ev := range highestBlockCh ends when the channel is closed.
ConsumerExit ==
    /\ consumer.pc = "range"
    /\ chClosed
    /\ consumer' = [consumer EXCEPT !.pc = "done"]
    /\ UNCHANGED <<oracle, pcNew, subscribed, chClosed, purges, published,
                   seenHead, owed, hist>>
    /\ UNCHANGED <<callVars, jvars>>

\* NewOracle, step by step, and the goroutine it leaves behind.
Construct ==
    \/ NewOracleSubscribe
    \/ NewOracleGo
    \/ \E params \in GpoConfigs : NewOracleReturn(params)
    \/ DeferUnsubscribe
    \/ DeferClose
    \/ ConsumerExit

\* NewOracle and the event feed.
NextFeed ==
    \/ Construct
    \/ \E ev \in HeadEvents : PublishUnheard(ev)
    \/ \E ev \in HeadEvents : PublishReceived(ev)

SpecFeed == Init /\ [][NextFeed]_vars

\* The Go scheduler runs every goroutine that can run: NewOracle goes on to
\* its return and the purging goroutine takes the close of its channel.  The
\* feed is the environment: nothing makes it publish.
FairFeed ==
    /\ SpecFeed
    /\ WF_vars(NewOracleSubscribe)
    /\ WF_vars(NewOracleGo)
    /\ WF_vars(\E params \in GpoConfigs : NewOracleReturn(params))
    /\ WF_vars(DeferUnsubscribe)
    /\ WF_vars(DeferClose)
    /\ WF_vars(ConsumerExit)

(* ------------------------------- C15 ----------------------------------- *)
\* C15: once NewOracle has returned, the subscription and the purging
\* goroutine stay alive (highestBlockCh subscribed and open, the goroutine in
\* its range loop), and every new-head notification published from then on
\* whose parent is not the head seen last is eventually followed by a purge
\* of the history cache.
PurgeFollowsNewHead ==
    /\ [](pcNew = "returned" =>
            (subscribed /\ ~chClosed /\ consumer.pc = "range"))
    /\ (owed ~> ~owed)

(* --------------------------- getBlockValues ---------------------------- *)
\* sort.Sort(sorter): the transactions by effective tip, ascending.
sortByTip(txs) == SortSeq(txs, LAMBDA a, b : a.tip < b.tip)

\* The loop over sorter.txs: a tip under ignoreUnder is skipped, so is a
\* transaction the coinbase sent; the loop ends once limit prices are in.
RECURSIVE collectPrices(_, _, _, _)
collectPrices(txs, limit, ignoreUnder, prices) ==
    IF txs = <<>> THEN prices
    ELSE LET tx == Head(txs) IN
         IF tx.tip < ignoreUnder
         THEN collectPrices(Tail(txs), limit, ignoreUnder, prices)
         ELSE IF ~tx.fromCoinbase
              THEN IF Len(prices) + 1 >= limit
                   THEN Append(prices, tx.tip)
                   ELSE collectPrices(Tail(txs), limit, ignoreUnder,
                                      Append(prices, tx.tip))
              ELSE collectPrices(Tail(txs), limit, ignoreUnder, prices)

\* What getBlockValues offers on the result channel for what the backend
\* returned: results{nil, err} for no block, results{prices, nil} otherwise.
getBlockValues(fetch, limit, ignoreUnder) ==
    IF fetch.nil THEN [values |-> <<>>, err |-> fetch.err]
    ELSE [values |-> collectPrices(sortByTip(fetch.txs), limit, ignoreUnder, <<>>),
          err |-> FALSE]

(* --------------------------- SuggestTipCap ----------------------------- *)
\* headHash: the zero hash when there is no header.
headHashOf(head) == IF head.nil THEN zeroHash ELSE head.hash

\* if headHash == lastHead, before the fetch lock ...
cacheHit(headHash, lastHead) == headHash = lastHead

\* The re-check that never finds the refreshed cache.
recheckHit_never(headHash, lastHead) == FALSE

\* ... and again under the fetch lock.
recheckHit(headHash, lastHead) == headHash = lastHead

\* The first loop: for sent < oracle.checkBlocks && number > 0.
firstBatch(checkBlocks, number) ==
    IF number < checkBlocks THEN number ELSE checkBlocks

\* The condition to query one more block, without its 2*checkBlocks limit.
mayQueryMore_unlimited(nvalues, nresults, exp, checkBlocks, number) ==
    nvalues = 1 /\ number > 0

\* len(res.values) == 1 && len(results)+1+exp < oracle.checkBlocks*2 && number > 0
mayQueryMore(nvalues, nresults, exp, checkBlocks, number) ==
    nvalues = 1 /\ nresults + 1 + exp < checkBlocks * 2 /\ number > 0

\* if len(res.values) == 0 { res.values = []*big.Int{lastPrice} }
orLastPrice(values, lastPrice) == IF values = <<>> THEN <<lastPrice>> ELSE values

\* sort.Sort(bigIntArray(results))
sortPrices(results) == SortSeq(results, LAMBDA a, b : a < b)

\* if price.Cmp(oracle.maxPrice) > 0 { price = maxPrice }
capPrice(price, maxPrice) == IF price > maxPrice THEN maxPrice ELSE price

\* price := lastPrice; the percentile of the sorted results when there are
\* any; capped by maxPrice.
samplePrice(lastPrice, results, percentile, maxPrice) ==
    LET price == IF Len(results) > 0
                 THEN sortPrices(results)[((Len(results) - 1) * percentile) \div 100 + 1]
                 ELSE lastPrice
    IN capPrice(price, maxPrice)

\* What the error path returns with the error: zero.
errorPrice_zero(lastPrice) == 0

\* return new(big.Int).Set(lastPrice), res.err
errorPrice(lastPrice) == lastPrice

\* The deferred unlock left out.
deferUnlock_forgotten(lock, c) == lock

\* defer oracle.fetchLock.Unlock(), when the function returns (c holds the
\* lock from line 138 on; before that nothing is deferred).
deferUnlock(lock, c) == IF lock = c THEN "free" ELSE lock

\* The channels still referenced: by a running call or by a worker.
reachable(chs, cls, ws) ==
    [id \in {k \in DOMAIN chs :
                 \/ \E c \in Callers : cls[c].id = k
                 \/ \E w \in ws : w.call = k} |-> chs[id]]

\* The calls in progress.
Active == {calls[c].id : c \in {x \in Callers : calls[x].pc # "idle"}}

\* What a return leaves in the history.
Returned(c, price, err, how) ==
    [how |-> how, price |-> price, err |-> err, id |-> calls[c].id,
     headHash |-> calls[c].headHash, number |-> calls[c].head.number,
     sent |-> calls[c].sent, lastHead |-> calls[c].lastHead,
     lastPrice |-> calls[c].lastPrice]

\* A call of SuggestTipCap begins: head := oracle.backend.CurrentBlock().Header().
SuggestTipCap(c, head) ==
    /\ pcNew = "returned"
    /\ calls[c].pc = "idle"
    /\ hist.made < MaxCalls
    /\ calls' = [calls EXCEPT ![c] =
                     [noCall EXCEPT !.pc = "read1", !.id = hist.made + 1,
                                    !.head = head, !.headHash = headHashOf(head)]]
    /\ hist' = [hist EXCEPT
                    !.made = @ + 1,
                    !.overlap = @ \cup {<<k, hist.made + 1>> : k \in Active},
                    !.ret[c] = [how |-> "none"]]
    /\ UNCHANGED <<oracle, pcNew, feedVars, cacheLock, fetchLock, chans, workers,
                   jvars>>

\* oracle.cacheLock.RLock(); lastHead := oracle.lastHead (either check).
ReadLastHead(c) ==
    /\ calls[c].pc \in {"read1", "read2"}
    /\ cacheLock.writer = "none"
    /\ cacheLock' = [cacheLock EXCEPT !.readers = @ \cup {c}]
    /\ calls' = [calls EXCEPT
                     ![c].lastHead = oracle.lastHead,
                     ![c].pc = IF calls[c].pc = "read1" THEN "read1b" ELSE "read2b"]
    /\ UNCHANGED <<oracle, pcNew, feedVars, fetchLock, chans, workers, hist,
                   jvars>>

\* lastPrice := oracle.lastPrice; RUnlock(); the check before the fetch lock.
FirstCheck(c) ==
    /\ calls[c].pc = "read1b"
    /\ cacheLock' = [cacheLock EXCEPT !.readers = @ \ {c}]
    /\ IF cacheHit(calls[c].headHash, calls[c].lastHead)
       THEN /\ calls' = [calls EXCEPT ![c] = noCall]
            /\ hist' = [hist EXCEPT
                            !.ret[c] =
                                [Returned(c, oracle.lastPrice, FALSE, "hit")
                                    EXCEPT !.lastPrice = oracle.lastPrice]]
       ELSE /\ calls' = [calls EXCEPT ![c].lastPrice = oracle.lastPrice,
                                      ![c].pc = "lock"]
            /\ UNCHANGED hist
    /\ UNCHANGED <<oracle, pcNew, feedVars, fetchLock, chans, workers, jvars>>

\* oracle.fetchLock.Lock(); defer oracle.fetchLock.Unlock()
FetchLock(c) ==
    /\ calls[c].pc = "lock"
    /\ fetchLock = "free"
    /\ fetchLock' = c
    /\ calls' = [calls EXCEPT ![c].pc = "read2"]
    /\ UNCHANGED <<oracle, pcNew, feedVars, cacheLock, chans, workers, hist,
                   jvars>>

\* lastPrice = oracle.lastPrice; RUnlock(); the check under the fetch lock.
SecondCheck(c) ==
    /\ calls[c].pc = "read2b"
    /\ cacheLock' = [cacheLock EXCEPT !.readers = @ \ {c}]
    /\ IF recheckHit(calls[c].headHash, calls[c].lastHead)
       THEN /\ calls' = [calls EXCEPT ![c] = noCall]
            /\ fetchLock' = deferUnlock(fetchLock, c)
            /\ hist' = [hist EXCEPT
                            !.ret[c] =
                                [Returned(c, oracle.lastPrice, FALSE, "rehit")
                                    EXCEPT !.lastPrice = oracle.lastPrice]]
       ELSE /\ calls' = [calls EXCEPT ![c].lastPrice = oracle.lastPrice,
                                      ![c].pc = "sample"]
            /\ UNCHANGED <<fetchLock, hist>>
    /\ UNCHANGED <<oracle, pcNew, feedVars, chans, workers, jvars>>

\* The sampling begins.  number = head.Number64().Uint64() faults on a nil
\* header (the deferred unlock still runs); otherwise result and quit are
\* made and the first loop starts its workers.
StartWorkers(c) ==
    LET cl == calls[c]
        n == firstBatch(oracle.checkBlocks, cl.head.number)
    IN
    /\ cl.pc = "sample"
    /\ IF cl.head.nil
       THEN /\ calls' = [calls EXCEPT ![c] = noCall]
            /\ fetchLock' = deferUnlock(fetchLock, c)
            /\ hist' = [hist EXCEPT !.ret[c] = Returned(c, 0, TRUE, "panic")]
            /\ UNCHANGED <<chans, workers>>
       ELSE /\ calls' = [calls EXCEPT ![c].sent = n, ![c].exp = n,
                                      ![c].number = cl.head.number - n,
                                      ![c].pc = "recv"]
            /\ chans' = MapPut(chans, cl.id,
                               [buf |-> <<>>, cap |-> oracle.checkBlocks,
                                quit |-> FALSE])
            /\ workers' = workers \cup
                   {[call |-> cl.id, blockNum |-> k] :
                       k \in (cl.head.number - n + 1)..cl.head.number}
            /\ hist' = [hist EXCEPT
                            !.log = Append(@, [ev |-> "sample", id |-> cl.id,
                                               head |-> cl.headHash])]
            /\ UNCHANGED fetchLock
    /\ UNCHANGED <<oracle, pcNew, feedVars, cacheLock, jvars>>

\* A worker's select takes case result <- results{...}: the channel has room.
WorkerSend(w, fetch) ==
    /\ w \in workers
    /\ Len(chans[w.call].buf) < chans[w.call].cap
    /\ workers' = workers \ {w}
    /\ chans' = reachable([chans EXCEPT ![w.call].buf =
                               Append(@, getBlockValues(fetch, sampleNumber,
                                                        oracle.ignorePrice))],
                          calls, workers')
    /\ UNCHANGED <<oracle, pcNew, feedVars, cacheLock, fetchLock, calls, hist,
                   jvars>>

\* A worker's select takes case <-quit: quit is closed.
WorkerQuit(w) ==
    /\ w \in workers
    /\ chans[w.call].quit
    /\ workers' = workers \ {w}
    /\ chans' = reachable(chans, calls, workers')
    /\ UNCHANGED <<oracle, pcNew, feedVars, cacheLock, fetchLock, calls, hist,
                   jvars>>

\* One iteration of for exp > 0: res := <-result and what follows.
Receive(c) ==
    LET cl == calls[c]
        res == Head(chans[cl.id].buf)
        exp == cl.exp - 1
        values == orLastPrice(res.values, cl.lastPrice)
        more == mayQueryMore(Len(values), Len(cl.results), exp,
                             oracle.checkBlocks, cl.number)
    IN
    /\ cl.pc = "recv"
    /\ cl.exp > 0
    /\ chans[cl.id].buf # <<>>
    /\ IF res.err
       THEN /\ calls' = [calls EXCEPT ![c] = noCall]
            /\ chans' = reachable([chans EXCEPT ![cl.id].buf = Tail(@),
                                                ![cl.id].quit = TRUE],
                                  calls', workers)
            /\ fetchLock' = deferUnlock(fetchLock, c)
            /\ hist' = [hist EXCEPT
                            !.ret[c] = Returned(c, errorPrice(cl.lastPrice),
                                                TRUE, "error"),
                            !.log = Append(@, [ev |-> "error", id |-> cl.id,
                                               head |-> cl.headHash])]
            /\ UNCHANGED workers
       ELSE /\ calls' = [calls EXCEPT
                             ![c].exp = IF more THEN exp + 1 ELSE exp,
                             ![c].sent = IF more THEN @ + 1 ELSE @,
                             ![c].number = IF more THEN @ - 1 ELSE @,
                             ![c].results = @ \o values]
            /\ workers' = IF more
                          THEN workers \cup
                                   {[call |-> cl.id, blockNum |-> cl.number]}
                          ELSE workers
            /\ chans' = [chans EXCEPT ![cl.id].buf = Tail(@)]
            /\ UNCHANGED <<fetchLock, hist>>
    /\ UNCHANGED <<oracle, pcNew, feedVars, cacheLock, jvars>>

\* The loop is over (exp == 0): the price is picked and capped.
Finish(c) ==
    LET cl == calls[c] IN
    /\ cl.pc = "recv"
    /\ cl.exp = 0
    /\ calls' = [calls EXCEPT
                     ![c].price = samplePrice(cl.lastPrice, cl.results,
                                              oracle.percentile, oracle.maxPrice),
                     ![c].pc = "write1"]
    /\ UNCHANGED <<oracle, pcNew, feedVars, cacheLock, fetchLock, chans, workers,
                   hist, jvars>>

\* The write lock taken without waiting for it.
writeLockFree_always(lock) == TRUE

\* oracle.cacheLock.Lock() waits until no writer and no reader holds it.
writeLockFree(lock) == lock.writer = "none" /\ lock.readers = {}

\* oracle.cacheLock.Lock(); oracle.lastHead = headHash
WriteLastHead(c) ==
    /\ calls[c].pc = "write1"
    /\ writeLockFree(cacheLock)
    /\ cacheLock' = [cacheLock EXCEPT !.writer = c]
    /\ oracle' = [oracle EXCEPT !.lastHead = calls[c].headHash]
    /\ calls' = [calls EXCEPT ![c].pc = "write2"]
    /\ UNCHANGED <<pcNew, feedVars, fetchLock, chans, workers, hist, jvars>>

\* oracle.lastPrice = price; oracle.cacheLock.Unlock(); return price, nil
WriteLastPrice(c) ==
    /\ calls[c].pc = "write2"
    /\ oracle' = [oracle EXCEPT !.lastPrice = calls[c].price]
    /\ cacheLock' = [cacheLock EXCEPT !.writer = "none"]
    /\ calls' = [calls EXCEPT ![c] = noCall]
    /\ chans' = reachable(chans, calls', workers)
    /\ fetchLock' = deferUnlock(fetchLock, c)
    /\ hist' = [hist EXCEPT
                    !.ret[c] = Returned(c, calls[c].price, FALSE, "sampled"),
                    !.written = @ \cup {<<calls[c].headHash, calls[c].price>>},
                    !.log = Append(@, [ev |-> "write", id |-> calls[c].id,
                                       head |-> calls[c].headHash])]
    /\ UNCHANGED <<pcNew, feedVars, workers, jvars>>

\* What a caller inside SuggestTipCap does next.
CallStep(c) ==
    \/ ReadLastHead(c)
    \/ FirstCheck(c)
    \/ FetchLock(c)
    \/ SecondCheck(c)
    \/ StartWorkers(c)
    \/ Receive(c)
    \/ Finish(c)
    \/ WriteLastHead(c)
    \/ WriteLastPrice(c)

\* What a getBlockValues goroutine does.
WorkerStep(w) ==
    \/ \E fetch \in Fetches : WorkerSend(w, fetch)
    \/ WorkerQuit(w)

\* The block numbers a worker may be started for.
BlockNums == 1..3

WorkerIds == [call : 1..MaxCalls, blockNum : BlockNums]

\* NewOracle and the callers of SuggestTipCap.
NextOracle ==
    \/ Construct
    \/ \E c \in Callers, head \in Headers : SuggestTipCap(c, head)
    \/ \E c \in Callers : CallStep(c)
    \/ \E w \in WorkerIds : WorkerStep(w)

SpecOracle == Init /\ [][NextOracle]_vars

\* The steps of the goroutines that exist: NewOracle, the callers inside
\* SuggestTipCap, the workers.
Progress ==
    \/ Construct
    \/ \E c \in Callers : CallStep(c)
    \/ \E w \in WorkerIds : WorkerStep(w)

\* NextOracle with at most MaxFairCalls calls.
NextFair ==
    \/ Construct
    \/ \E c \in Callers, head \in Headers :
          /\ hist.made < MaxFairCalls
          /\ SuggestTipCap(c, head)
    \/ \E c \in Callers : CallStep(c)
    \/ \E w \in WorkerIds : WorkerStep(w)

\* The Go scheduler does not stop while a goroutine can run (the least it
\* guarantees).  Nothing makes a caller call.
FairOracle == Init /\ [][NextFair]_vars /\ WF_vars(Progress)

(* ------------------------------- C16 ----------------------------------- *)
\* C16: within one call of SuggestTipCap the number of workers started never
\* exceeds 2*checkBlocks nor the head block's number (no worker is started
\* for block 0 or below), during the call and when it has returned.
WorkersBounded ==
    /\ \A c \in Callers :
          calls[c].pc \in {"recv", "write1", "write2"} =>
              /\ calls[c].sent <= 2 * oracle.checkBlocks
              /\ calls[c].sent <= calls[c].head.number
              /\ calls[c].number = calls[c].head.number - calls[c].sent
              /\ calls[c].number >= 0
    /\ \A c \in Callers :
          hist.ret[c].how \in {"sampled", "error"} =>
              /\ hist.ret[c].sent <= 2 * oracle.checkBlocks
              /\ hist.ret[c].sent <= hist.ret[c].number
    /\ \A w \in workers : w.blockNum >= 1
    /\ \A k \in 1..MaxCalls :
          Cardinality({w \in workers : w.call = k}) <= 2 * oracle.checkBlocks

\* A call that started 2*checkBlocks workers with blocks left to query.
WorkersBoundedWitness ==
    \E c \in Callers :
        /\ calls[c].pc = "recv"
        /\ calls[c].sent = 2 * oracle.checkBlocks
        /\ calls[c].number > 0
        /\ calls[c].exp > 0

(* ------------------------------- C17 ----------------------------------- *)
\* The positions of SuggestTipCap at which the caller holds fetchLock.
Locked == {"read2", "read2b", "sample", "recv", "write1", "write2"}

\* The workers of call k that have not returned.
WorkersOf(k) == {w \in workers : w.call = k}

\* Inside the receive loop the results still expected are those of the
\* workers still running plus those waiting in the channel; after the loop
\* every worker started has returned and every result has been received.
OneResultPerWorker ==
    \A c \in Callers :
        /\ calls[c].pc = "recv" =>
              /\ calls[c].id \in DOMAIN chans
              /\ calls[c].exp = Cardinality(WorkersOf(calls[c].id))
                                   + Len(chans[calls[c].id].buf)
        /\ calls[c].pc \in {"write1", "write2"} =>
              /\ WorkersOf(calls[c].id) = {}
              /\ chans[calls[c].id].buf = <<>>

\* No worker is blocked: its select can take the send (the channel has room)
\* or the quit case (quit is closed); and quit is closed for every worker
\* whose call has returned.
NoWorkerBlocked ==
    \A w \in workers :
        /\ w.call \in DOMAIN chans
        /\ \/ Len(chans[w.call].buf) < chans[w.call].cap
           \/ chans[w.call].quit
        /\ w.call \notin Active => chans[w.call].quit

\* fetchLock is held by a caller exactly while it is between Lock() and its
\* return.
FetchLockReleased ==
    /\ fetchLock # "free" => calls[fetchLock].pc \in Locked
    /\ \A c \in Callers : calls[c].pc \in Locked => fetchLock = c

\* C17: every call of SuggestTipCap returns and every worker it started
\* returns, whatever the workers report and however they interleave: on the
\* success path the caller receives one result from every worker it
\* started, on the error path quit is closed for the workers left, no worker
\* is ever blocked, and fetchLock is released on every return path.
SuggestTipCapTerminates ==
    /\ [](OneResultPerWorker /\ NoWorkerBlocked /\ FetchLockReleased)
    /\ \A c \in Callers : (calls[c].pc # "idle") ~> (calls[c].pc = "idle")
    /\ (workers # {}) ~> (workers = {})

\* A call has returned a worker's error while another of its workers is
\* still running: quit is closed for it and fetchLock is free.
SuggestTipCapTerminatesWitness ==
    \E c \in Callers :
        /\ hist.ret[c].how = "error"
        /\ calls[c].pc = "idle"
        /\ fetchLock = "free"
        /\ \E w \in workers :
              /\ w.call = hist.ret[c].id
              /\ chans[w.call].quit

(* ------------------------------- C18 ----------------------------------- *)
\* The positions of SuggestTipCap between the missed re-check and the return
\* of the sampled price.
Sampling == {"sample", "recv", "write1", "write2"}

\* Calls m and n were in progress at the same time.
Overlap(m, n) == <<m, n>> \in hist.overlap \/ <<n, m>> \in hist.overlap

\* Block sampling happens only under fetchLock: the caller that samples holds
\* it, and every worker running belongs to its call or to a call that has
\* returned an error and closed quit.
SamplingUnderFetchLock ==
    /\ \A c \in Callers : calls[c].pc \in Sampling => fetchLock = c
    /\ \A w \in workers :
          \/ fetchLock # "free" /\ calls[fetchLock].id = w.call
          \/ chans[w.call].quit

\* A call samples a head that was sampled before only if that sample failed
\* with an error or a sample for another head was cached in between.
ResampleOnlyAfterLoss ==
    \A m \in 1..Len(hist.log), n \in 1..Len(hist.log) :
        (/\ m < n
         /\ hist.log[m].ev = "sample"
         /\ hist.log[n].ev = "sample"
         /\ hist.log[m].head = hist.log[n].head)
        => \E k \in (m + 1)..(n - 1) :
               \/ hist.log[k].ev = "error" /\ hist.log[k].id = hist.log[m].id
               \/ hist.log[k].ev = "write" /\ hist.log[k].head # hist.log[m].head

\* A caller whose re-check under fetchLock finds its head in the cache
\* returns the price cached with that head; it started no worker.
RecheckReturnsCached ==
    \A c \in Callers :
        hist.ret[c].how \in {"hit", "rehit"} =>
            /\ <<hist.ret[c].headHash, hist.ret[c].price>> \in hist.written
            /\ hist.ret[c].sent = 0
            /\ \A k \in 1..Len(hist.log) :
                   hist.log[k].id = hist.ret[c].id => hist.log[k].ev # "sample"

\* lastHead and lastPrice are written together under the write lock: no
\* reader is inside while a writer is, the pair at rest is one that a sample
\* wrote (or the initial one), and so is every pair a caller has read.
PairWrittenTogether ==
    /\ cacheLock.writer # "none" => cacheLock.readers = {}
    /\ cacheLock.writer = "none" /\ pcNew = "returned" =>
          <<oracle.lastHead, oracle.lastPrice>> \in hist.written
    /\ \A c \in Callers :
          /\ calls[c].pc \in {"lock", "read2"} \cup Sampling =>
                <<calls[c].lastHead, calls[c].lastPrice>> \in hist.written
          /\ hist.ret[c].how \in {"hit", "rehit", "error", "sampled"} =>
                <<hist.ret[c].lastHead, hist.ret[c].lastPrice>> \in hist.written

\* C18 as stated: of the calls in progress together that observe one head,
\* a call that takes fetchLock after a successful sample for that head
\* starts no sampling of its own.
SingleSamplePerHead ==
    \A m \in 1..Len(hist.log), n \in 1..Len(hist.log) :
        (/\ m < n
         /\ hist.log[m].ev = "write"
         /\ hist.log[n].ev = "sample"
         /\ hist.log[m].head = hist.log[n].head)
        => ~Overlap(hist.log[m].id, hist.log[n].id)

\* C18: sampling happens only under fetchLock, so one caller samples at a
\* time; a caller whose re-check finds its head still cached returns the
\* cached price without starting a worker; a head is sampled again only after
\* a failed sample or after another head was cached; and (lastHead,
\* lastPrice) is written and read as one pair.
SampleOnceWhileCached ==
    /\ SamplingUnderFetchLock
    /\ ResampleOnlyAfterLoss
    /\ RecheckReturnsCached
    /\ PairWrittenTogether

\* A caller that missed the first check, waited for fetchLock while another
\* call sampled its head, and returned the cached price from the re-check.
SampleOnceWhileCachedWitness ==
    \E c \in Callers :
        /\ hist.ret[c].how = "rehit"
        /\ \E k \in 1..Len(hist.log) :
              /\ hist.log[k].ev = "write"
              /\ hist.log[k].head = hist.ret[c].headHash
              /\ Overlap(hist.log[k].id, hist.ret[c].id)

CacheHeldWhileSampling ==
    \A c \in Callers :
        calls[c].pc \in {"sample", "recv", "write1"} =>
            /\ oracle.lastHead = calls[c].lastHead
            /\ oracle.lastPrice = calls[c].lastPrice

\* The step in which caller c returns a worker's error.
ReturnsError(c) ==
    /\ calls[c].pc = "recv"
    /\ calls'[c].pc = "idle"
    /\ hist'.ret[c].how = "error"

\* A price returned from the cache for a head other than the initial one was
\* cached by a sample of that head that succeeded.
CachedOnlyBySuccess ==
    \A c \in Callers :
        hist.ret[c].how \in {"hit", "rehit"} =>
            \/ hist.ret[c].headHash = zeroHash
            \/ \E k \in 1..Len(hist.log) :
                  /\ hist.log[k].ev = "write"
                  /\ hist.log[k].head = hist.ret[c].headHash
                  /\ hist.log[k].id # hist.ret[c].id

\* C20: a call that receives a worker's error returns the error with the
\* price that was cached before it, and leaves (lastHead, lastPrice) as
\* they were: the cache does not hold the head of the failed attempt, so a
\* later call for that head misses the cache and samples again.
ErrorLeavesCache ==
    /\ [](CacheHeldWhileSampling /\ CachedOnlyBySuccess)
    /\ [][\A c \in Callers :
             ReturnsError(c) =>
                 /\ hist'.ret[c].err
                 /\ hist'.ret[c].price = oracle.lastPrice
                 /\ oracle' = oracle
                 /\ hist'.written = hist.written
                 /\ oracle'.lastHead # calls[c].headHash]_vars

\* A call returned a worker's error for a head, and a later call for the
\* same head has started sampling it again.
ErrorLeavesCacheWitness ==
    \E m \in 1..Len(hist.log), n \in 1..Len(hist.log) :
        /\ m < n
        /\ hist.log[m].ev = "error"
        /\ hist.log[n].ev = "sample"
        /\ hist.log[n].head = hist.log[m].head
        /\ hist.log[n].id # hist.log[m].id
        /\ \E c \in Callers : hist.ret[c].how = "error" /\ hist.ret[c].err

====
